---- MODULE Spec2Model ----
(***************************************************************************)
(* Model of the Obsidian plugin "Hide Tagged Notes" (src/main.js).         *)
(*                                                                         *)
(* Strings are sequences of one-character strings, so that trimming,       *)
(* lower-casing, splitting and regular-expression matching are computed    *)
(* character by character as the JavaScript does.                          *)
(***************************************************************************)
EXTENDS Integers, Sequences, FiniteSets, TLC

VARIABLES
  phase,      \* "loaded" after onload, "unloaded" after onunload
  settings,   \* this.settings: [enabled, hiddenTags, hideInGraph]
  saved,      \* the record the host's store holds (loadData / saveData)
  pending,    \* saveSettings calls suspended at `await this.saveData(...)`
  cache,      \* metadataCache: path -> file cache of the vault file at that path
  rows,       \* explorer rows of the document: path -> "absent" | "shown" | "hidden"
  bodyFlag,   \* document.body carries the class "hide-tags-enabled"
  ribbon,     \* icon of the ribbon element: "eye" | "eye-off"
  graphs,     \* graph leaves: id -> [open, value, focused, query]; query is what
              \* the last input event on the search field handed to the graph
  inserted,   \* history per graph leaf: tokens a refresh wrote into the field,
              \* and whether a refresh ran while the field held focus
  last,       \* the step just taken: the refresh it ended with ("none", "mode",
              \* "teardown") and the "Add tag" input it handled
  pure        \* argument/result record of the pure-function specifications

vars == <<phase, settings, saved, pending, cache, rows, bodyFlag, ribbon,
          graphs, inserted, last, pure>>

(***************************************************************************)
(* Characters and strings                                                  *)
(***************************************************************************)

\* Characters matched by \s and removed by String.prototype.trim.
WhiteSpace == {" ", "\t", "\n"}

IsSpace(c) == c \in WhiteSpace

\* String.prototype.toLowerCase on one character (the letters the model uses).
LowerChar(c) ==
  CASE c = "A" -> "a"
    [] c = "X" -> "x"
    [] c = "Y" -> "y"
    [] OTHER -> c

toLowerCase(s) == [i \in 1..Len(s) |-> LowerChar(s[i])]

RECURSIVE TrimStart(_)
TrimStart(s) ==
  IF s = <<>> THEN <<>>
  ELSE IF IsSpace(Head(s)) THEN TrimStart(Tail(s))
  ELSE s

RECURSIVE TrimEnd(_)
TrimEnd(s) ==
  IF s = <<>> THEN <<>>
  ELSE IF IsSpace(s[Len(s)]) THEN TrimEnd(SubSeq(s, 1, Len(s) - 1))
  ELSE s

\* String.prototype.trim
trim(s) == TrimEnd(TrimStart(s))

startsWith(s, c) == Len(s) > 0 /\ s[1] = c

\* String.prototype.split(/[D]+/): the fragments between maximal runs of
\* delimiter characters; a leading or trailing run yields an empty fragment.
RECURSIVE SplitFrom(_, _, _, _)
SplitFrom(s, D, i, cur) ==
  IF i > Len(s) THEN <<cur>>
  ELSE IF s[i] \in D
       THEN LET rest == {j \in i..Len(s) : s[j] \notin D}
                j == IF rest = {} THEN Len(s) + 1
                     ELSE CHOOSE m \in rest : \A n \in rest : m <= n
            IN <<cur>> \o SplitFrom(s, D, j, <<>>)
       ELSE SplitFrom(s, D, i + 1, Append(cur, s[i]))

split(s, D) == SplitFrom(s, D, 1, <<>>)

(***************************************************************************)
(* Tag normalizer: main.js 9-32                                            *)
(***************************************************************************)

\* normalizeTag with the startsWith test dropped: '#' is always prepended.
normalizeTagAlwaysPrefix(tag) ==
  IF tag = <<>> THEN <<>>
  ELSE LET cleaned == toLowerCase(trim(tag))
       IN IF cleaned = <<>> THEN <<>> ELSE <<"#">> \o cleaned

normalizeTag(tag) ==
  IF tag = <<>> THEN <<>>
  ELSE LET cleaned == toLowerCase(trim(tag))
       IN IF cleaned = <<>> THEN <<>>
          ELSE IF startsWith(cleaned, "#") THEN cleaned ELSE <<"#">> \o cleaned

InSeq(x, s) == \E i \in 1..Len(s) : s[i] = x

RECURSIVE NormalizeLoop(_, _, _)
NormalizeLoop(tags, i, result) ==
  IF i > Len(tags) THEN result
  ELSE LET normalized == normalizeTag(tags[i])
       IN IF normalized = <<>> \/ InSeq(normalized, result)
          THEN NormalizeLoop(tags, i + 1, result)
          ELSE NormalizeLoop(tags, i + 1, Append(result, normalized))

normalizeTagList(tags) == NormalizeLoop(tags, 1, <<>>)

parseTagInput(value) == normalizeTagList(split(value, {"\n", ",", " "}))

(***************************************************************************)
(* Inputs of the function-level specifications                             *)
(***************************************************************************)

MaxTagLen == 3

StringsUpTo(A, n) == UNION {[1..k -> A] : k \in 0..n}

NormAlphabet == {" ", "\t", "#", "a", "A"}

IdleMain ==
  /\ phase = "idle"
  /\ settings = [enabled |-> FALSE, hiddenTags |-> <<>>, hideInGraph |-> TRUE]
  /\ saved = [present |-> FALSE]
  /\ pending = <<>>
  /\ cache = <<>>
  /\ rows = <<>>
  /\ bodyFlag = FALSE
  /\ ribbon = "eye"
  /\ graphs = <<>>
  /\ inserted = <<>>
  /\ last = [refresh |-> "none", added |-> <<>>]

mainVars == <<phase, settings, saved, pending, cache, rows, bodyFlag, ribbon,
              graphs, inserted, last>>

(***************************************************************************)
(* normalizeTag applied once and then to its own result                    *)
(***************************************************************************)

InitNormalize ==
  /\ IdleMain
  /\ \E x \in StringsUpTo(NormAlphabet, MaxTagLen) :
       pure = [x |-> x, applied |-> 0, once |-> <<>>, twice |-> <<>>]

NormalizeOnce ==
  /\ pure.applied = 0
  /\ pure' = [pure EXCEPT !.applied = 1, !.once = normalizeTag(pure.x)]
  /\ UNCHANGED mainVars

NormalizeTwice ==
  /\ pure.applied = 1
  /\ pure' = [pure EXCEPT !.applied = 2, !.twice = normalizeTag(pure.once)]
  /\ UNCHANGED mainVars

NextNormalize == NormalizeOnce \/ NormalizeTwice

SpecNormalize == InitNormalize /\ [][NextNormalize]_vars

IsBlank(s) == \A i \in 1..Len(s) : IsSpace(s[i])

IsLower(s) == \A i \in 1..Len(s) : s[i] \notin {"A", "X", "Y"}

IsTrimmed(s) == s = <<>> \/ (~IsSpace(s[1]) /\ ~IsSpace(s[Len(s)]))

\* C9: normalizeTag(normalizeTag(x)) = normalizeTag(x), and the result is
\* empty exactly for blank input and otherwise a trimmed lower-case string
\* that starts with '#'.
C9_NormalizeIdempotent ==
  /\ pure.applied >= 1 =>
       /\ (pure.once = <<>>) <=> IsBlank(pure.x)
       /\ pure.once # <<>> =>
            /\ startsWith(pure.once, "#")
            /\ IsLower(pure.once)
            /\ IsTrimmed(pure.once)
  /\ pure.applied = 2 => pure.twice = pure.once

C9_Witness ==
  /\ pure.applied = 2
  /\ pure.x = <<" ", "A", " ">>
  /\ pure.twice = <<"#", "a">>

(***************************************************************************)
(* Visibility decider: main.js 125-150                                     *)
(***************************************************************************)

\* getFileCache(file) returning null, and a cache without tags or frontmatter.
NullCache == [present |-> FALSE, tags |-> <<>>, fmKind |-> "none",
              fmList |-> <<>>, fmString |-> <<>>]

EmptyCache == [NullCache EXCEPT !.present = TRUE]

\* tags.map((t) => normalizeTag(t))
mapNormalizeTag(tags) == [i \in 1..Len(tags) |-> normalizeTag(tags[i])]

\* tags.some((tag) => hiddenTagSet.has(tag))
someHidden(tags, hiddenTags) == \E i \in 1..Len(tags) : InSeq(tags[i], hiddenTags)

\* fmTags.split(/[ ,]+/).map((t) => normalizeTag(t.trim())).filter(Boolean)
splitFmTags(fmTags) ==
  SelectSeq([i \in 1..Len(split(fmTags, {" ", ","})) |->
               normalizeTag(trim(split(fmTags, {" ", ","})[i]))],
            LAMBDA t : t # <<>>)

\* isHiddenTagFile that forgets the frontmatter tags.
isHiddenTagFileInlineOnly(hiddenTags, fileCache) ==
  IF Len(hiddenTags) = 0 THEN FALSE
  ELSE LET inlineTags == IF fileCache.present
                         THEN mapNormalizeTag(fileCache.tags) ELSE <<>>
       IN someHidden(inlineTags, hiddenTags)

\* this.isHiddenTagFile(file), with this.settings.hiddenTags and the file's
\* cache passed in.
isHiddenTagFile(hiddenTags, fileCache) ==
  IF Len(hiddenTags) = 0 THEN FALSE
  ELSE LET inlineTags == IF fileCache.present
                         THEN mapNormalizeTag(fileCache.tags) ELSE <<>>
           fmKind == IF fileCache.present THEN fileCache.fmKind ELSE "none"
       IN IF someHidden(inlineTags, hiddenTags) THEN TRUE
          ELSE IF fmKind = "list"
               THEN someHidden(mapNormalizeTag(fileCache.fmList), hiddenTags)
          ELSE IF fmKind = "string"
               THEN someHidden(splitFmTags(fileCache.fmString), hiddenTags)
          ELSE FALSE

(***************************************************************************)
(* Search-token synchronizer: main.js 34-36, 99-101, 197-212               *)
(***************************************************************************)

TagPrefix == <<"-", "t", "a", "g", ":">>

excludeToken(tag) == TagPrefix \o tag

\* getGraphExclusionTokens, with this.settings.hiddenTags passed in.
getGraphExclusionTokens(hiddenTags) ==
  [i \in 1..Len(hiddenTags) |-> excludeToken(hiddenTags[i])]

RegExpSpecial == {".", "*", "+", "?", "^", "$", "{", "}", "(", ")", "|", "[", "]", "\\"}

RECURSIVE Flatten(_)
Flatten(ss) == IF ss = <<>> THEN <<>> ELSE Head(ss) \o Flatten(Tail(ss))

\* value.replace(/[.*+?^${}()|[\]\\]/g, "\\$&")
escapeRegExp(value) ==
  Flatten([i \in 1..Len(value) |->
             IF value[i] \in RegExpSpecial THEN <<"\\", value[i]>> ELSE <<value[i]>>])

\* The pattern source of an (escaped) token as the RegExp constructor reads
\* it: a backslash makes the next character literal, an unescaped '.' matches
\* any character but a line terminator, any other character matches itself.
RECURSIVE PatternAtoms(_)
PatternAtoms(src) ==
  IF src = <<>> THEN <<>>
  ELSE IF Head(src) = "\\" /\ Len(src) >= 2
       THEN <<[any |-> FALSE, c |-> src[2]]>> \o PatternAtoms(SubSeq(src, 3, Len(src)))
  ELSE IF Head(src) = "."
       THEN <<[any |-> TRUE, c |-> "."]>> \o PatternAtoms(Tail(src))
  ELSE <<[any |-> FALSE, c |-> Head(src)]>> \o PatternAtoms(Tail(src))

AtomMatches(atom, c) == IF atom.any THEN c # "\n" ELSE c = atom.c

\* The atoms match text[i .. i + Len(atoms) - 1].
MatchesAt(atoms, text, i) ==
  /\ i >= 1
  /\ i + Len(atoms) - 1 <= Len(text)
  /\ \A k \in 1..Len(atoms) : AtomMatches(atoms[k], text[i + k - 1])

\* new RegExp(`(?:^|\\s)${escapeRegExp(token)}(?:$|\\s)`).test(text)
\* with a prefix (substring) test in place of the closing (?:$|\s).
TokenTestNoEnd(text, token) ==
  LET atoms == PatternAtoms(escapeRegExp(token))
  IN \E i \in 1..Len(text) :
       /\ MatchesAt(atoms, text, i)
       /\ (i = 1 \/ IsSpace(text[i - 1]))

\* new RegExp(`(?:^|\\s)${escapeRegExp(token)}(?:$|\\s)`).test(text)
TokenTest(text, token) ==
  LET atoms == PatternAtoms(escapeRegExp(token))
      n == Len(atoms)
  IN \E i \in 1..Len(text) :
       /\ MatchesAt(atoms, text, i)
       /\ (i = 1 \/ IsSpace(text[i - 1]))
       /\ (i + n - 1 = Len(text) \/ IsSpace(text[i + n]))

\* text.replace(new RegExp(`(^|\\s)${escapeRegExp(token)}(?=$|\\s)`, "g"), " "),
\* scanning from position p: at each position the alternative ^ is tried
\* before \s, a match is replaced by one space and the scan resumes after it.
RECURSIVE ReplaceFrom(_, _, _)
ReplaceFrom(text, atoms, p) ==
  LET n == Len(atoms)
      ahead(e) == e = Len(text) \/ IsSpace(text[e + 1])
      atStart == p = 1 /\ MatchesAt(atoms, text, 1) /\ ahead(n)
      afterSpace == IsSpace(text[p]) /\ MatchesAt(atoms, text, p + 1) /\ ahead(p + n)
  IN IF p > Len(text) THEN <<>>
     ELSE IF atStart THEN <<" ">> \o ReplaceFrom(text, atoms, p + n)
     ELSE IF afterSpace THEN <<" ">> \o ReplaceFrom(text, atoms, p + n + 1)
     ELSE <<text[p]>> \o ReplaceFrom(text, atoms, p + 1)

RemoveToken(text, token) == ReplaceFrom(text, PatternAtoms(escapeRegExp(token)), 1)

\* text.replace(/\s+/g, " ")
RECURSIVE CollapseSpace(_)
CollapseSpace(text) ==
  IF text = <<>> THEN <<>>
  ELSE IF IsSpace(Head(text))
       THEN <<" ">> \o CollapseSpace(TrimStart(text))
  ELSE <<Head(text)>> \o CollapseSpace(Tail(text))

RECURSIVE AppendMissing(_, _, _)
AppendMissing(next, tokens, i) ==
  IF i > Len(tokens) THEN next
  ELSE IF ~TokenTest(next, tokens[i])
       THEN AppendMissing(trim(trim(next) \o <<" ">> \o tokens[i]), tokens, i + 1)
  ELSE AppendMissing(next, tokens, i + 1)

RECURSIVE RemoveAll(_, _, _)
RemoveAll(next, tokens, i) ==
  IF i > Len(tokens) THEN next
  ELSE RemoveAll(RemoveToken(next, tokens[i]), tokens, i + 1)

\* The value `next` that updateGraphFilters computes for an input whose value
\* is `current` (main.js 197-212).
reconcile(current, exclusionTokens, shouldHide) ==
  IF shouldHide THEN AppendMissing(current, exclusionTokens, 1)
  ELSE trim(CollapseSpace(RemoveAll(current, exclusionTokens, 1)))

(***************************************************************************)
(* isHiddenTagFile on one note snapshot and one hidden-tag list            *)
(***************************************************************************)

MaxInline == 2
MaxFmList == 2
MaxFmLen == 3

SeqsUpTo(S, n) == UNION {[1..k -> S] : k \in 0..n}

\* Hidden-tag lists as loadSettings and addTag leave them (normalized).
HiddenLists ==
  { <<>>, << <<"#", "x">> >>, << <<"#", "y">> >>,
    << <<"#", "x">>, <<"#", "y">> >>, << <<"#", "x", " ", "y">> >> }

InlinePool == { <<"#", "X">>, <<"#", "y">>, <<"#", "z">> }

FmListPool == { <<"x">>, <<" ", "Y">>, <<"x", " ", "y">>, <<"z">> }

FmAlphabet == {"x", "Y", " ", ","}

FileCaches ==
  {NullCache}
  \cup {[EmptyCache EXCEPT !.tags = t, !.fmKind = "none"] :
          t \in SeqsUpTo(InlinePool, MaxInline)}
  \cup {[EmptyCache EXCEPT !.tags = t, !.fmKind = "other"] :
          t \in SeqsUpTo(InlinePool, 1)}
  \cup {[EmptyCache EXCEPT !.tags = t, !.fmKind = "list", !.fmList = l] :
          t \in SeqsUpTo(InlinePool, 1), l \in SeqsUpTo(FmListPool, MaxFmList)}
  \cup {[EmptyCache EXCEPT !.tags = t, !.fmKind = "string", !.fmString = f] :
          t \in SeqsUpTo(InlinePool, 1), f \in StringsUpTo(FmAlphabet, MaxFmLen)}

InitIsHidden ==
  /\ IdleMain
  /\ \E h \in HiddenLists, fc \in FileCaches :
       pure = [hiddenTags |-> h, fileCache |-> fc, called |-> FALSE,
               result |-> FALSE]

CallIsHidden ==
  /\ ~pure.called
  /\ pure' = [pure EXCEPT !.called = TRUE,
                          !.result = isHiddenTagFile(pure.hiddenTags, pure.fileCache)]
  /\ UNCHANGED mainVars

NextIsHidden == CallIsHidden

SpecIsHidden == InitIsHidden /\ [][NextIsHidden]_vars

\* The fragments of a delimited string: its maximal runs of characters that
\* are neither a space nor a comma.
Fragments(s) ==
  LET delim(k) == s[k] \in {" ", ","}
      runs == { p \in (1..Len(s)) \X (1..Len(s)) :
                  /\ p[1] <= p[2]
                  /\ \A k \in p[1]..p[2] : ~delim(k)
                  /\ (p[1] = 1 \/ delim(p[1] - 1))
                  /\ (p[2] = Len(s) \/ delim(p[2] + 1)) }
  IN { SubSeq(s, p[1], p[2]) : p \in runs }

\* The tags of a note: inline tags plus frontmatter tags.
NoteTags(fc) ==
  IF ~fc.present THEN {}
  ELSE {fc.tags[i] : i \in 1..Len(fc.tags)}
       \cup (IF fc.fmKind = "list" THEN {fc.fmList[i] : i \in 1..Len(fc.fmList)}
             ELSE IF fc.fmKind = "string" THEN Fragments(fc.fmString)
             ELSE {})

HiddenSet(h) == {h[i] : i \in 1..Len(h)}

\* C2: isHiddenTagFile is true exactly when the hidden-tag set is non-empty
\* and some tag of the note (inline, frontmatter list element, or fragment of
\* a frontmatter string split on spaces/commas) normalizes to a member of it.
C2_IsHiddenExact ==
  pure.called =>
    (pure.result <=>
       /\ pure.hiddenTags # <<>>
       /\ \E t \in NoteTags(pure.fileCache) :
            normalizeTag(t) \in HiddenSet(pure.hiddenTags))

C2_Witness ==
  /\ pure.called
  /\ pure.result
  /\ pure.fileCache.fmKind = "string"
  /\ pure.fileCache.fmString = <<"x", ",", "Y">>
  /\ pure.hiddenTags = << <<"#", "y">> >>
  /\ pure.fileCache.tags = <<>>

(***************************************************************************)
(* reconcile applied once and then to its own result                       *)
(***************************************************************************)

MaxPieces == 4

Tx == excludeToken(<<"#", "x">>)

\* The texts a user can leave in a graph search field are built from these.
Pieces == { <<" ">>, <<"\t">>, <<"n">>, <<"y">>, Tx }

Texts == { Flatten(ps) : ps \in SeqsUpTo(Pieces, MaxPieces) }

\* Non-empty hidden-tag lists as loadSettings and addTag leave them; a tag
\* with an inner space comes from a saved record ("hiddenTags": ["x y"]).
TokenTagLists ==
  { << <<"#", "x">> >>,
    << <<"#", "x", " ", "y">> >>,
    << <<"#", "x">>, <<"#", "x", " ", "y">> >>,
    << <<"#", "x", " ", "y">>, <<"#", "x">> >>,
    << <<"#", ".">> >>,
    << <<"#", "n">>, <<"#", "x">> >> }

InitReconcile ==
  /\ IdleMain
  /\ \E t \in Texts, h \in TokenTagLists, b \in BOOLEAN :
       pure = [current |-> t, tokens |-> getGraphExclusionTokens(h),
               shouldHide |-> b, applied |-> 0, once |-> <<>>, twice |-> <<>>]

ReconcileOnce ==
  /\ pure.applied = 0
  /\ pure' = [pure EXCEPT !.applied = 1,
                          !.once = reconcile(pure.current, pure.tokens, pure.shouldHide)]
  /\ UNCHANGED mainVars

ReconcileTwice ==
  /\ pure.applied = 1
  /\ pure' = [pure EXCEPT !.applied = 2,
                          !.twice = reconcile(pure.once, pure.tokens, pure.shouldHide)]
  /\ UNCHANGED mainVars

NextReconcile == ReconcileOnce \/ ReconcileTwice

SpecReconcile == InitReconcile /\ [][NextReconcile]_vars

\* The positions at which `word` occurs in `text` as a whole word: delimited
\* by the start/end of the string or by whitespace.
WordAt(text, word) ==
  { i \in 1..Len(text) :
      /\ i + Len(word) - 1 <= Len(text)
      /\ SubSeq(text, i, i + Len(word) - 1) = word
      /\ (i = 1 \/ IsSpace(text[i - 1]))
      /\ (i + Len(word) - 1 = Len(text) \/ IsSpace(text[i + Len(word)])) }

WholeWord(text, word) == WordAt(text, word) # {}

\* The whitespace-separated words of a text, in order.
Words(text) == SelectSeq(split(text, WhiteSpace), LAMBDA w : w # <<>>)

RECURSIVE JoinWords(_)
JoinWords(ws) ==
  IF ws = <<>> THEN <<>>
  ELSE IF Len(ws) = 1 THEN ws[1]
  ELSE ws[1] \o <<" ">> \o JoinWords(Tail(ws))

HasSpace(s) == \E i \in 1..Len(s) : s[i] = " "

\* C3: applying reconcile twice with the same tokens and the same shouldHide
\* gives the same string as applying it once.
C3_ReconcileIdempotent ==
  pure.applied = 2 => pure.twice = pure.once

\* Idempotence when no token contains a space character.
ReconcileIdempotentSpaceFree ==
  (pure.applied = 2 /\ \A i \in 1..Len(pure.tokens) : ~HasSpace(pure.tokens[i]))
    => pure.twice = pure.once

\* The words of a text that are no word of any token.
OtherWords(text, tokens) ==
  SelectSeq(Words(text),
            LAMBDA w : \A i \in 1..Len(tokens) : ~InSeq(w, Words(tokens[i])))

\* C6: with shouldHide = false the result contains no token as a whole word,
\* keeps all other words of the text in their order, and is single-spaced
\* with no leading or trailing whitespace.
C6_RemoveAllTokens ==
  (pure.applied >= 1 /\ ~pure.shouldHide) =>
    /\ \A i \in 1..Len(pure.tokens) : ~WholeWord(pure.once, pure.tokens[i])
    /\ OtherWords(pure.once, pure.tokens) = OtherWords(pure.current, pure.tokens)
    /\ pure.once = JoinWords(Words(pure.once))

\* Removal when no token contains a space character: the result is exactly
\* the words of the text that are not tokens, joined by single spaces.
RemoveAllTokensSpaceFree ==
  (/\ pure.applied >= 1
   /\ ~pure.shouldHide
   /\ \A i \in 1..Len(pure.tokens) : ~HasSpace(pure.tokens[i]))
    => pure.once = JoinWords(SelectSeq(Words(pure.current),
                                       LAMBDA w : ~InSeq(w, pure.tokens)))

Missing(text, tokens) == SelectSeq(tokens, LAMBDA t : ~WholeWord(text, t))

\* The text followed by the tokens `app`, joined by single spaces.
Appended(text, app) ==
  JoinWords((IF trim(text) = <<>> THEN <<>> ELSE <<trim(text)>>) \o app)

\* The subsequences of a sequence of distinct elements.
SubSeqsOf(s) ==
  { SelectSeq(s, LAMBDA x : x \in keep) : keep \in SUBSET {s[i] : i \in 1..Len(s)} }

DEFAULT_SETTINGS == [enabled |-> FALSE, hiddenTags |-> <<>>, hideInGraph |-> TRUE]

SettingKeys == {"enabled", "hiddenTags", "hideInGraph"}

\* The store without a record (loadData() gives null).
NoRecord == [present |-> FALSE, has |-> {}, enabled |-> FALSE, isArray |-> FALSE,
             hiddenTags |-> <<>>, hideInGraph |-> FALSE]

\* The record saveData(this.settings) writes.
RecordOf(s) == [present |-> TRUE, has |-> SettingKeys, enabled |-> s.enabled,
                isArray |-> TRUE, hiddenTags |-> s.hiddenTags,
                hideInGraph |-> s.hideInGraph]

\* loadSettings that keeps the saved tag list as it is.
loadSettingsRaw(record) ==
  [enabled |-> IF record.present /\ "enabled" \in record.has
               THEN record.enabled ELSE DEFAULT_SETTINGS.enabled,
   hiddenTags |-> IF record.present /\ "hiddenTags" \in record.has /\ record.isArray
                  THEN record.hiddenTags ELSE <<>>,
   hideInGraph |-> IF record.present /\ "hideInGraph" \in record.has
                   THEN record.hideInGraph ELSE DEFAULT_SETTINGS.hideInGraph]

\* this.settings after loadSettings() when loadData() gives `record`.
loadSettings(record) ==
  LET has(k) == record.present /\ k \in record.has
      merged == [enabled |-> IF has("enabled") THEN record.enabled
                             ELSE DEFAULT_SETTINGS.enabled,
                 isArray |-> IF has("hiddenTags") THEN record.isArray ELSE TRUE,
                 hiddenTags |-> IF has("hiddenTags") THEN record.hiddenTags
                                ELSE DEFAULT_SETTINGS.hiddenTags,
                 hideInGraph |-> IF has("hideInGraph") THEN record.hideInGraph
                                 ELSE DEFAULT_SETTINGS.hideInGraph]
  IN [enabled |-> merged.enabled,
      hiddenTags |-> normalizeTagList(IF merged.isArray THEN merged.hiddenTags ELSE <<>>),
      hideInGraph |-> merged.hideInGraph]

\* The icon updateRibbonIcon sets.
RibbonIconFor(s) == IF s.enabled THEN "eye-off" ELSE "eye"

\* The vault: what getFiles() and getFileCache() give for a path.
NoFile == [exists |-> FALSE, fc |-> NullCache]

FileOf(fc) == [exists |-> TRUE, fc |-> fc]

\* hiddenPaths of updateExplorerVisibility.
HiddenPaths(s, files, shouldHide) ==
  IF shouldHide /\ Len(s.hiddenTags) # 0
  THEN {p \in DOMAIN files : files[p].exists /\ isHiddenTagFile(s.hiddenTags, files[p].fc)}
  ELSE {}

\* updateExplorerVisibility that adds the marker but never removes it.
ExplorerRowsAfterAddOnly(s, files, rws, shouldHide) ==
  LET hiddenPaths == HiddenPaths(s, files, shouldHide)
  IN [r \in DOMAIN rws |->
        IF rws[r].state = "absent" \/ rws[r].path = "" THEN rws[r]
        ELSE IF shouldHide /\ rws[r].path \in hiddenPaths
             THEN [rws[r] EXCEPT !.state = "hidden"]
        ELSE rws[r]]

\* The explorer rows after updateExplorerVisibility(shouldHide): every row
\* with a data-path has the class "hide-tags-hidden-file" toggled.
ExplorerRowsAfter(s, files, rws, shouldHide) ==
  LET hiddenPaths == HiddenPaths(s, files, shouldHide)
  IN [r \in DOMAIN rws |->
        IF rws[r].state = "absent" \/ rws[r].path = "" THEN rws[r]
        ELSE [rws[r] EXCEPT !.state =
                IF shouldHide /\ rws[r].path \in hiddenPaths THEN "hidden" ELSE "shown"]]

\* updateGraphFilters runs its loop: hideInGraph is on and there are tokens.
GraphFiltersRun(s) ==
  s.hideInGraph /\ Len(getGraphExclusionTokens(s.hiddenTags)) # 0

\* The focus test of updateGraphFilters left out.
GraphWritableAlways(leaf) == TRUE

\* document.activeElement === input makes updateGraphFilters return early.
GraphWritable(leaf) == ~leaf.focused

\* One graph leaf after updateGraphFilters(shouldHide).
GraphLeafAfter(s, leaf, shouldHide) ==
  IF ~GraphFiltersRun(s) \/ ~leaf.open THEN leaf
  ELSE LET current == leaf.value
           next == reconcile(current, getGraphExclusionTokens(s.hiddenTags), shouldHide)
       IN IF next # current /\ GraphWritable(leaf)
          THEN [leaf EXCEPT !.value = next, !.query = next]
          ELSE leaf

GraphsAfter(s, gs, shouldHide) ==
  [g \in DOMAIN gs |-> GraphLeafAfter(s, gs[g], shouldHide)]

\* History of one graph leaf across refreshHiddenFiles: the tokens a refresh
\* wrote into the field and that are still in it, and whether a refresh ran
\* while the field held input focus.
HistoryAfter(s, leaf, h, shouldHide) ==
  IF ~leaf.open THEN h
  ELSE LET tokens == getGraphExclusionTokens(s.hiddenTags)
           current == leaf.value
           after == GraphLeafAfter(s, leaf, shouldHide).value
       IN [tokens |-> {t \in h.tokens : WholeWord(after, t)}
                        \cup {tokens[i] : i \in {j \in 1..Len(tokens) :
                                /\ ~WholeWord(current, tokens[j])
                                /\ WholeWord(after, tokens[j])}},
           focusSeen |-> h.focusSeen \/ leaf.focused]

NoHistory == [tokens |-> {}, focusSeen |-> FALSE]

\* refreshHiddenFiles(respectMode), as one step on the primed variables.
refreshHiddenFiles(s, shouldHide) ==
  /\ bodyFlag' = shouldHide
  /\ rows' = ExplorerRowsAfter(s, cache, rows, shouldHide)
  /\ graphs' = GraphsAfter(s, graphs, shouldHide)
  /\ inserted' = [g \in DOMAIN graphs |->
                    HistoryAfter(s, graphs[g], inserted[g], shouldHide)]

(***************************************************************************)
(* Handlers                                                                *)
(***************************************************************************)

MaxPending == 2

\* saveSettings up to `await this.saveData(this.settings)`: the record is
\* handed to the host and the handler is suspended.
SuspendInSave(s, added) ==
  /\ Len(pending) < MaxPending
  /\ settings' = s
  /\ pending' = Append(pending, RecordOf(s))
  /\ last' = [refresh |-> "none", added |-> added]
  /\ UNCHANGED <<phase, saved, cache, rows, bodyFlag, ribbon, graphs, inserted, pure>>

\* toggleEnabled (ribbon icon and command "toggle-tag-hiding").
ToggleEnabled ==
  /\ phase = "loaded"
  /\ SuspendInSave([settings EXCEPT !.enabled = ~settings.enabled], <<>>)

\* The "Enable Tag Hiding" toggle of the settings tab.
SetEnabled(value) ==
  /\ phase = "loaded"
  /\ SuspendInSave([settings EXCEPT !.enabled = value], <<>>)

\* The "Filter Graph Views" toggle of the settings tab.
SetHideInGraph(value) ==
  /\ phase = "loaded"
  /\ SuspendInSave([settings EXCEPT !.hideInGraph = value], <<>>)

\* addTag followed by saveAndRefreshSettings.
AddTag(value) ==
  /\ phase = "loaded"
  /\ LET parsed == parseTagInput(value)
     IN /\ Len(parsed) # 0
        /\ SuspendInSave([settings EXCEPT !.hiddenTags =
             normalizeTagList(normalizeTagList(settings.hiddenTags \o parsed))],
                         value)

\* removeTag followed by saveAndRefreshSettings.
RemoveTag(tagToRemove) ==
  /\ phase = "loaded"
  /\ SuspendInSave([settings EXCEPT !.hiddenTags =
       normalizeTagList(SelectSeq(settings.hiddenTags, LAMBDA tag : tag # tagToRemove))],
       <<>>)

\* saveSettings after the await, without the ribbon update.
ResumeSaveNoRibbon ==
  /\ pending # <<>>
  /\ saved' = Head(pending)
  /\ pending' = Tail(pending)
  /\ refreshHiddenFiles(settings, settings.enabled)
  /\ last' = [refresh |-> "mode", added |-> <<>>]
  /\ UNCHANGED <<phase, settings, cache, ribbon, pure>>

\* saveSettings after the await: the host has written the record; the handler
\* resumes with refreshHiddenFiles() and updateRibbonIcon().  The host
\* finishes the writes in the order they were issued; the order decides only
\* which record the store holds, which no handler reads after onload.
ResumeSave ==
  /\ pending # <<>>
  /\ saved' = Head(pending)
  /\ pending' = Tail(pending)
  /\ refreshHiddenFiles(settings, settings.enabled)
  /\ ribbon' = RibbonIconFor(settings)
  /\ last' = [refresh |-> "mode", added |-> <<>>]
  /\ UNCHANGED <<phase, settings, cache, pure>>

\* The registered events (create, delete, rename, modify, changed,
\* layout-change, active-leaf-change) and the command "apply-tag-filters-now".
RefreshEvent ==
  /\ phase = "loaded"
  /\ refreshHiddenFiles(settings, settings.enabled)
  /\ last' = [refresh |-> "mode", added |-> <<>>]
  /\ UNCHANGED <<phase, settings, saved, pending, cache, ribbon, pure>>

\* onunload
Unload ==
  /\ phase = "loaded"
  /\ phase' = "unloaded"
  /\ refreshHiddenFiles(settings, FALSE)
  /\ last' = [refresh |-> "teardown", added |-> <<>>]
  /\ UNCHANGED <<settings, saved, pending, cache, ribbon, pure>>

\* The state after onload: loadSettings, updateRibbonIcon, refreshHiddenFiles.
Loaded(record, files, rws, gs) ==
  LET s == loadSettings(record)
  IN /\ phase = "loaded"
     /\ saved = record
     /\ settings = s
     /\ pending = <<>>
     /\ cache = files
     /\ ribbon = RibbonIconFor(s)
     /\ bodyFlag = s.enabled
     /\ rows = ExplorerRowsAfter(s, files, rws, s.enabled)
     /\ graphs = GraphsAfter(s, gs, s.enabled)
     /\ inserted = [g \in DOMAIN gs |-> HistoryAfter(s, gs[g], NoHistory, s.enabled)]
     /\ last = [refresh |-> "mode", added |-> <<>>]
     /\ pure = <<>>

(***************************************************************************)
(* The plugin with a vault and a file explorer                             *)
(***************************************************************************)

Paths == {"a.md", "b.md"}

\* What the vault can hold at a path: nothing, a note with an inline tag, a
\* note with a frontmatter tag string.
VaultFiles ==
  { NoFile,
    FileOf([EmptyCache EXCEPT !.tags = << <<"#", "X">> >>]),
    FileOf([EmptyCache EXCEPT !.fmKind = "string", !.fmString = <<"z", ",", " ", "y">>]) }

\* The explorer's row elements: two carry a data-path, one carries none.
RowPaths == [r1 |-> "a.md", r2 |-> "b.md", r3 |-> ""]

FreshRows == [r \in DOMAIN RowPaths |-> [path |-> RowPaths[r], state |-> "shown"]]

\* Saved records the explorer runs start from: none, and one with raw tags.
ExplorerRecords ==
  { NoRecord,
    [NoRecord EXCEPT !.present = TRUE, !.has = {"enabled", "hiddenTags"},
                     !.enabled = TRUE, !.isArray = TRUE,
                     !.hiddenTags = << <<"Y">>, <<" ">>, <<"#", "y">> >>] }

\* What the user types into the "Add tag" field.
ExplorerTagInputs == { <<"X">>, <<" ", ",">> }

\* The host changes the vault: create, modify, delete, metadata change.
SetFile(p, f) ==
  /\ cache[p] # f
  /\ cache' = [cache EXCEPT ![p] = f]
  /\ last' = [refresh |-> "none", added |-> <<>>]
  /\ UNCHANGED <<phase, settings, saved, pending, rows, bodyFlag, ribbon, graphs,
                 inserted, pure>>

\* The host renders a row element (without the plugin's class) or drops one.
RenderRow(r) ==
  /\ rows[r].state = "absent"
  /\ rows' = [rows EXCEPT ![r].state = "shown"]
  /\ last' = [refresh |-> "none", added |-> <<>>]
  /\ UNCHANGED <<phase, settings, saved, pending, cache, bodyFlag, ribbon, graphs,
                 inserted, pure>>

DropRow(r) ==
  /\ rows[r].state # "absent"
  /\ rows' = [rows EXCEPT ![r].state = "absent"]
  /\ last' = [refresh |-> "none", added |-> <<>>]
  /\ UNCHANGED <<phase, settings, saved, pending, cache, bodyFlag, ribbon, graphs,
                 inserted, pure>>

InitExplorer ==
  \E record \in ExplorerRecords, files \in [Paths -> VaultFiles] :
    Loaded(record, files, FreshRows, <<>>)

NextExplorer ==
  \/ ToggleEnabled
  \/ \E v \in BOOLEAN : SetEnabled(v)
  \/ \E v \in ExplorerTagInputs : AddTag(v)
  \/ \E i \in 1..Len(settings.hiddenTags) : RemoveTag(settings.hiddenTags[i])
  \/ ResumeSave
  \/ RefreshEvent
  \/ Unload
  \/ \E p \in Paths, f \in VaultFiles : SetFile(p, f)
  \/ \E r \in {"r1", "r2"} : RenderRow(r)
  \/ \E r \in {"r1", "r2"} : DropRow(r)

SpecExplorer == InitExplorer /\ [][NextExplorer]_vars

\* The explorer agrees with shouldHide: the global flag equals it, and a row
\* with a path is marked exactly when shouldHide holds and the vault has a
\* file at that path for which isHiddenTagFile is true.
ExplorerMatches(shouldHide) ==
  /\ bodyFlag = shouldHide
  /\ \A r \in DOMAIN rows :
       (rows[r].state # "absent" /\ rows[r].path # "") =>
         (rows[r].state = "hidden" <=>
            /\ shouldHide
            /\ cache[rows[r].path].exists
            /\ isHiddenTagFile(settings.hiddenTags, cache[rows[r].path].fc))

\* C1: after every refreshHiddenFiles call the explorer agrees with
\* shouldHide, which is settings.enabled, or false for the refresh of
\* onunload; with hide mode off or at unload no row is marked.
C1_RefreshPostcondition ==
  /\ last.refresh = "mode" => ExplorerMatches(settings.enabled)
  /\ last.refresh = "teardown" => ExplorerMatches(FALSE)
  /\ (last.refresh = "teardown" \/ (last.refresh = "mode" /\ ~settings.enabled))
       => \A r \in DOMAIN rows : rows[r].state # "hidden"

\* A refresh has marked the row of a tagged note and left another note's row.
C1_Witness ==
  /\ phase = "loaded"
  /\ last.refresh = "mode"
  /\ pending = <<>>
  /\ settings.enabled
  /\ ExplorerMatches(TRUE)
  /\ rows.r1.state = "hidden"
  /\ rows.r2.state = "shown"
  /\ cache["b.md"].exists
  /\ saved = RecordOf(settings)

(***************************************************************************)
(* The plugin with graph views                                             *)
(***************************************************************************)

GraphIds == {"graph"}

ClosedLeaf == [open |-> FALSE, value |-> <<>>, focused |-> FALSE, query |-> <<>>]

\* Texts a graph search field opens with, or the user types into it.
UserTexts == { <<>>, <<"n">>, Tx \o <<"y">> }

GraphRecords ==
  { NoRecord,
    [NoRecord EXCEPT !.present = TRUE, !.has = {"enabled"}, !.enabled = TRUE] }

GraphTagInputs == { <<"X">> }

\* A graph (or local graph) leaf opens with the search text the host restores.
OpenGraph(g, text) ==
  /\ ~graphs[g].open
  /\ graphs' = [graphs EXCEPT ![g] = [open |-> TRUE, value |-> text,
                                      focused |-> FALSE, query |-> text]]
  /\ inserted' = [inserted EXCEPT ![g] = NoHistory]
  /\ last' = [refresh |-> "none", added |-> <<>>]
  /\ UNCHANGED <<phase, settings, saved, pending, cache, rows, bodyFlag, ribbon, pure>>

CloseGraph(g) ==
  /\ graphs[g].open
  /\ graphs' = [graphs EXCEPT ![g] = ClosedLeaf]
  /\ inserted' = [inserted EXCEPT ![g] = NoHistory]
  /\ last' = [refresh |-> "none", added |-> <<>>]
  /\ UNCHANGED <<phase, settings, saved, pending, cache, rows, bodyFlag, ribbon, pure>>

\* The user puts the cursor into the search field: document.activeElement.
FocusGraph(g) ==
  /\ graphs[g].open
  /\ ~graphs[g].focused
  /\ graphs' = [h \in DOMAIN graphs |-> [graphs[h] EXCEPT !.focused = (h = g)]]
  /\ last' = [refresh |-> "none", added |-> <<>>]
  /\ UNCHANGED <<phase, settings, saved, pending, cache, rows, bodyFlag, ribbon,
                 inserted, pure>>

BlurGraph(g) ==
  /\ graphs[g].focused
  /\ graphs' = [graphs EXCEPT ![g].focused = FALSE]
  /\ last' = [refresh |-> "none", added |-> <<>>]
  /\ UNCHANGED <<phase, settings, saved, pending, cache, rows, bodyFlag, ribbon,
                 inserted, pure>>

\* The user edits the focused field; the browser fires the input event.
UserType(g, text) ==
  /\ graphs[g].focused
  /\ graphs[g].value # text
  /\ graphs' = [graphs EXCEPT ![g].value = text, ![g].query = text]
  /\ inserted' = [inserted EXCEPT ![g] = NoHistory]
  /\ last' = [refresh |-> "none", added |-> <<>>]
  /\ UNCHANGED <<phase, settings, saved, pending, cache, rows, bodyFlag, ribbon, pure>>

InitGraph ==
  \E record \in GraphRecords, gs \in [GraphIds -> {ClosedLeaf}] :
    Loaded(record, <<>>, <<>>, gs)

NextGraph ==
  \/ ToggleEnabled
  \/ \E v \in BOOLEAN : SetEnabled(v)
  \/ \E v \in BOOLEAN : SetHideInGraph(v)
  \/ \E v \in GraphTagInputs : AddTag(v)
  \/ \E i \in 1..Len(settings.hiddenTags) : RemoveTag(settings.hiddenTags[i])
  \/ ResumeSave
  \/ RefreshEvent
  \/ Unload
  \/ \E g \in GraphIds, t \in UserTexts : OpenGraph(g, t)
  \/ \E g \in GraphIds : CloseGraph(g)
  \/ \E g \in GraphIds : FocusGraph(g)
  \/ \E g \in GraphIds : BlurGraph(g)
  \/ \E g \in GraphIds, t \in UserTexts : UserType(g, t)

SpecGraph == InitGraph /\ [][NextGraph]_vars

\* C4: a refresh leaves a graph search field that holds input focus as it
\* is: neither its text nor the query its input events set changes.
C4_FocusedInputUntouched ==
  [][ last'.refresh # "none" =>
        \A g \in DOMAIN graphs :
          (graphs[g].open /\ graphs[g].focused) => graphs'[g] = graphs[g] ]_vars

\* A refresh ran while the focused field lacked a token it would have added.
C4_Witness ==
  /\ last.refresh = "mode"
  /\ \E g \in DOMAIN graphs :
       /\ graphs[g].open
       /\ graphs[g].focused
       /\ GraphFiltersRun(settings)
       /\ reconcile(graphs[g].value, getGraphExclusionTokens(settings.hiddenTags),
                    settings.enabled) # graphs[g].value

\* C8: once hiding is off and every handler has run its refresh, no open graph
\* search field that no refresh found focused still holds, as a whole word, a
\* token that a refresh of the plugin wrote into it.
C8_DisablingClearsGraphTokens ==
  (~settings.enabled /\ pending = <<>> /\ last.refresh # "none") =>
    \A g \in DOMAIN graphs :
      (graphs[g].open /\ ~inserted[g].focusSeen) =>
        \A t \in inserted[g].tokens : ~WholeWord(graphs[g].value, t)

(***************************************************************************)
(* The plugin's handlers over a vault of two notes                         *)
(***************************************************************************)

\* Saved records: none, a partial one, one with raw tags (blank, duplicate,
\* upper-case, inner space), one whose hiddenTags is no array.
SavedRecords ==
  { NoRecord,
    [NoRecord EXCEPT !.present = TRUE, !.has = {"enabled"}, !.enabled = TRUE],
    [NoRecord EXCEPT !.present = TRUE, !.has = SettingKeys, !.enabled = TRUE,
                     !.isArray = TRUE,
                     !.hiddenTags = << <<"Y">>, <<" ">>, <<"#", "y">>,
                                       <<"x", " ", "Y">> >>],
    [NoRecord EXCEPT !.present = TRUE, !.has = SettingKeys, !.hideInGraph = TRUE,
                     !.isArray = FALSE, !.hiddenTags = <<"x">>] }

\* What the user types into the "Add tag" field.
TagInputs == { <<"X">>, <<" ", ",">>, <<"#", "y", ",", "x", " ", "Y">>, <<"\t", "#", "X", "\n">> }

StaticVault ==
  [p \in Paths |->
     IF p = "a.md" THEN FileOf([EmptyCache EXCEPT !.tags = << <<"#", "X">> >>])
     ELSE FileOf([EmptyCache EXCEPT !.fmKind = "list", !.fmList = << <<"Y">> >>])]

Init ==
  \E record \in SavedRecords : Loaded(record, StaticVault, FreshRows, [g \in GraphIds |-> ClosedLeaf])

Next ==
  \/ ToggleEnabled
  \/ \E v \in BOOLEAN : SetEnabled(v)
  \/ \E v \in BOOLEAN : SetHideInGraph(v)
  \/ \E v \in TagInputs : AddTag(v)
  \/ \E i \in 1..Len(settings.hiddenTags) : RemoveTag(settings.hiddenTags[i])
  \/ ResumeSave
  \/ RefreshEvent
  \/ Unload

Spec == Init /\ [][Next]_vars

NoDuplicates(tags) ==
  \A i, j \in 1..Len(tags) : i # j => tags[i] # tags[j]

\* Every hidden tag is non-empty, lower-case and '#'-prefixed; none repeats.
TagsNormalized(tags) ==
  /\ \A i \in 1..Len(tags) :
       /\ tags[i] # <<>>
       /\ IsLower(tags[i])
       /\ startsWith(tags[i], "#")
  /\ NoDuplicates(tags)

\* The tags an "Add tag" input names, in the order typed.
Entered(value) ==
  SelectSeq(mapNormalizeTag(split(value, {"\n", ",", " "})), LAMBDA t : t # <<>>)

FirstPos(t, s) == CHOOSE i \in 1..Len(s) : s[i] = t /\ \A j \in 1..(i - 1) : s[j] # t

\* `new` keeps `old` as its head and appends the entered tags that are not in
\* it, each once, in the order they were first entered.
AddedInOrder(old, value, new) ==
  LET entered == Entered(value)
      n == Len(old)
  IN /\ Len(new) >= n
     /\ SubSeq(new, 1, n) = old
     /\ {new[k] : k \in (n + 1)..Len(new)}
          = {entered[i] : i \in 1..Len(entered)} \ {old[i] : i \in 1..n}
     /\ \A j, k \in (n + 1)..Len(new) :
          j < k => FirstPos(new[j], entered) < FirstPos(new[k], entered)

\* C7: after loadSettings and through every handler, settings.hiddenTags holds
\* only non-empty, lower-case, '#'-prefixed tags without duplicates, and an
\* add keeps the existing tags in order and appends the new ones in
\* first-seen order.
C7_HiddenTagsNormalized ==
  /\ [](TagsNormalized(settings.hiddenTags))
  /\ [][ last'.added # <<>> =>
           AddedInOrder(settings.hiddenTags, last'.added, settings'.hiddenTags) ]_vars

\* Tags loaded from a raw record, then two more added by one input.
C7_Witness ==
  /\ last.added = <<"#", "y", ",", "x", " ", "Y">>
  /\ settings.hiddenTags = << <<"#", "y">>, <<"#", "x", " ", "y">>, <<"#", "x">> >>

\* C10 as stated: a handler is dispatched only when no other handler is
\* between its change of the settings and the end of its persist, refresh
\* and ribbon update.
C10_HandlersNeverInterleave ==
  [][ (Len(pending') > Len(pending)
         \/ (Len(pending') = Len(pending) /\ last'.refresh # "none"))
        => pending = <<>> ]_vars

\* C10 (amended): handlers interleave at the await in saveSettings; once no
\* saveSettings call is suspended, the ribbon icon and the global flag agree
\* with settings.enabled.
C10_SettledWhenNoSavePending ==
  (phase = "loaded" /\ pending = <<>>) =>
    /\ ribbon = RibbonIconFor(settings)
    /\ bodyFlag = settings.enabled

\* Setting changes have been persisted and the last saveSettings call has
\* resumed: the store holds the record of the in-memory settings.
C10_Witness ==
  /\ phase = "loaded"
  /\ pending = <<>>
  /\ last.refresh = "mode"
  /\ settings.enabled
  /\ ribbon = "eye-off"
  /\ saved = RecordOf(settings)
  /\ settings.hiddenTags = << <<"#", "x">> >>

====
